---- MODULE Spec2Model ----
(***************************************************************************)
(* Decoupled (Matheron's rule) trajectory sampling for deep Gaussian       *)
(* processes: src/trieste/models/gpflux/sampler.py, with the model refit   *)
(* of src/trieste/models/gpflux/models.py.                                  *)
(*                                                                         *)
(* Tensors are modelled by what identifies them.  A random tensor is the   *)
(* index of the random draw that produced it (rng counts the draws made so *)
(* far, so two draws never carry the same index); the value 0 stands for   *)
(* the constant tf.ones([0, 0, 0]) the weights start with.  The parameters *)
(* of a model (kernel, inducing points, q_mu, q_sqrt) are the number of    *)
(* fits the model has been through.  The output of a layer is the sequence *)
(* of everything it was computed from, so two outputs are equal exactly    *)
(* when they were computed from the same input, features, weights and      *)
(* model parameters.                                                       *)
(***************************************************************************)
EXTENDS Naturals, Integers, Sequences, FiniteSets, TLC

\* ------------------------------------------------------------------ bounds
NumManagers == 2     \* decoupled trajectory samplers, each over its own model
NumLayers == 2       \* f_layers of every model
MaxBatch == 2        \* batch sizes B of the inputs: 1..MaxBatch
NumPoints == 1       \* distinct query tensors per batch size
MaxObjects == 2      \* trajectory objects ever handed out
MaxFits == 1         \* optimize() calls per model
MaxPasses == 2       \* weight-sampling passes over a list of layers
NumFeatures == 2     \* L, the num_features argument of the managers
NumInducing == 2     \* M, inducing points of every layer
NumOutputs == 2      \* P, output channels (columns of q_mu) of every layer

Managers == 1..NumManagers
LayerIds == 1..(NumManagers * NumLayers)
ObjectIds == 1..MaxObjects
CompositionType == "dgp_feature_decomposition_trajectory"
ChainedSampleType == "ChainedSample"

VARIABLES
    model,            \* model[m]: number of fits of manager m's model
    sampling_layers,  \* sampling_layers[m]: manager m's list of layer samplers
    layers,           \* heap of DeepGaussianProcessDecoupledLayer objects
    objects,          \* heap of trajectory objects, in order of creation
    rng,              \* number of random tensors drawn so far
    hist,             \* per object: the evaluations made on it
    last,             \* the last operation and its outcome
    direct,           \* number of operations called directly on a layer sampler
    build,            \* one construction of a decoupled trajectory sampler
    reparam,          \* one DeepGaussianProcessReparamSampler and its model
    dgp               \* one DeepGaussianProcess and its last update(dataset)

main == <<model, sampling_layers, layers, objects, rng, hist, last, direct>>
vars == <<model, sampling_layers, layers, objects, rng, hist, last, direct,
          build, reparam, dgp>>

\* ------------------------------------------------------------------ values
Inputs == [B : 1..MaxBatch, val : {<<p>> : p \in 1..NumPoints}]
NoX == [B |-> 0, val |-> <<>>]
NoOut == [B |-> 0, val |-> <<>>, chan |-> 0]
NoEval == [valid |-> FALSE, x |-> NoX, out |-> NoOut]

\* tf.Variable(tf.ones([0, 0, 0])): no draw behind it, every dimension 0
InitialWeights == [draw |-> 0, B |-> 0, rows |-> 0, P |-> 0, q |-> 0, Kmm |-> 0,
                   phi |-> <<0, 0>>]

\* ---------------------------------------------- feature function bank (RFF)
\* the order in which the RFF layer of the installed GPflux draws its two
\* tensors when it is built: the bias before the weights, or the weights
\* before the bias
RFFBuilds == {"b_then_W", "W_then_b"}

\* __init__ builds b and W in the dummy call, in the order of the library's
\* build, and keeps them as variables
FeatureFunctions_init(order, r) ==
    IF order = "b_then_W"
    THEN [W |-> r + 2, b |-> r + 1]
    ELSE [W |-> r + 1, b |-> r + 2]

\* resample(): b, then W, are assigned fresh draws of the same shape
FeatureFunctions_resample(f, r) ==
    [W |-> r + 2, b |-> r + 1]

\* ------------------------------------------------------- one layer sampler
\* _prepare_weight_sampler: Kmm is computed here, from the kernel and the
\* inducing points as they are now, and captured by the closure; q_mu,
\* q_sqrt and the inducing points are captured by reference.
prepare_weight_sampler(version) ==
    [Kmm |-> version]

\* weight_sampler(batch_size): one draw of shape [B, L + M, P], from the
\* captured Kmm, the current q_mu/q_sqrt/Z and the current features
weight_sampler(lay, batch_size, version, r) ==
    [draw |-> r + 1,
     B |-> batch_size,
     rows |-> lay.num_features + NumInducing,
     P |-> NumOutputs,
     q |-> version,
     Kmm |-> lay.weight_sampler.Kmm,
     phi |-> <<lay.features.W, lay.features.b>>]

\* DeepGaussianProcessDecoupledLayer.__init__
Layer_init(m, version, r, order) ==
    [mgr |-> m,
     num_features |-> NumFeatures,
     features |-> FeatureFunctions_init(order, r),
     weight_sampler |-> prepare_weight_sampler(version),
     initialized |-> FALSE,
     weights_sample |-> InitialWeights,
     batch_size |-> 0]

\* A store is the layer heap together with the random generator.

\* resample() that prepares a new weight sampler first, as update() does
Layer_resample_prepared(s, l) ==
    [layers |-> [s.layers EXCEPT
                    ![l].weight_sampler =
                        prepare_weight_sampler(model[s.layers[l].mgr]),
                    ![l].weights_sample =
                        [weight_sampler(s.layers[l], s.layers[l].batch_size,
                                        model[s.layers[l].mgr], s.rng)
                            EXCEPT !.Kmm = model[s.layers[l].mgr]]],
     rng |-> s.rng + 1]

\* resample(): the weights are assigned a draw for the recorded batch size
Layer_resample(s, l) ==
    [layers |-> [s.layers EXCEPT ![l].weights_sample =
                    weight_sampler(s.layers[l], s.layers[l].batch_size,
                                   model[s.layers[l].mgr], s.rng)],
     rng |-> s.rng + 1]

\* update() that also returns the layer sampler to its uninitialized state
Layer_update_reset(s, l) ==
    Layer_resample(
        [layers |-> [s.layers EXCEPT
                        ![l].weight_sampler =
                            prepare_weight_sampler(model[s.layers[l].mgr]),
                        ![l].initialized = FALSE,
                        ![l].batch_size = 0],
         rng |-> s.rng], l)

\* update(): a new weight sampler is prepared, then resample()
Layer_update(s, l) ==
    Layer_resample(
        [layers |-> [s.layers EXCEPT ![l].weight_sampler =
                        prepare_weight_sampler(model[s.layers[l].mgr])],
         rng |-> s.rng], l)

\* a lazy initialization that draws only while the weights are still the
\* empty tensor of the constructor
Layer_initialize_once(s, l, x) ==
    IF ~s.layers[l].initialized
    THEN LET s1 == [s EXCEPT !.layers[l].batch_size = x.B]
             s2 == IF s.layers[l].weights_sample.draw = 0
                   THEN Layer_resample(s1, l)
                   ELSE s1
         IN  [s2 EXCEPT !.layers[l].initialized = TRUE]
    ELSE s

\* a call that initializes whether or not the layer sampler is initialized
Layer_initialize_always(s, l, x) ==
    LET s1 == [s EXCEPT !.layers[l].batch_size = x.B]
        s2 == Layer_resample(s1, l)
    IN  [s2 EXCEPT !.layers[l].initialized = TRUE]

\* the first part of __call__: lazy initialization
Layer_initialize(s, l, x) ==
    IF ~s.layers[l].initialized
    THEN LET s1 == [s EXCEPT !.layers[l].batch_size = x.B]
             s2 == Layer_resample(s1, l)
         IN  [s2 EXCEPT !.layers[l].initialized = TRUE]
    ELSE s

\* the call without its batch-size assertion
Layer_batch_unchecked(lay, x) ==
    TRUE

\* tf.debugging.assert_equal(tf.shape(x)[-2], self._batch_size.value())
Layer_batch_ok(lay, x) ==
    x.B = lay.batch_size

\* the features contracted with the cached weights, plus the mean function
Layer_output(lay, x, version) ==
    [B |-> x.B,
     P |-> lay.weights_sample.P,
     val |-> x.val \o <<lay.features.W, lay.features.b,
                        lay.weights_sample.draw, version>>]

\* DeepGaussianProcessDecoupledLayer.__call__
Layer_call(s, l, x) ==
    LET s1 == Layer_initialize(s, l, x)
        lay == s1.layers[l]
    IN  IF Layer_batch_ok(lay, x)
        THEN [store |-> s1, err |-> "none",
              out |-> Layer_output(lay, x, model[lay.mgr])]
        ELSE [store |-> s1, err |-> "ShapeMismatch", out |-> NoX]

\* ------------------------------------------------- trajectory composition
RECURSIVE Trajectory_thread(_, _, _)
\* for layer in self._sampling_layers: x = layer(x)
Trajectory_thread(s, ls, x) ==
    IF ls = <<>>
    THEN [store |-> s, err |-> "none", out |-> x]
    ELSE LET r == Layer_call(s, Head(ls), x)
         IN  IF r.err # "none"
             THEN r
             ELSE Trajectory_thread(r.store, Tail(ls), r.out)

\* return x[..., -1]
LastChannel(x) ==
    [B |-> x.B, val |-> x.val, chan |-> x.P - 1]

\* return x[..., 0]
FirstChannel(x) ==
    [B |-> x.B, val |-> x.val, chan |-> 0]

\* dgp_feature_decomposition_trajectory.__call__
Trajectory_call(s, ls, x) ==
    LET r == Trajectory_thread(s, ls, x)
    IN  IF r.err # "none"
        THEN [store |-> r.store, err |-> r.err, out |-> NoOut]
        ELSE [store |-> r.store, err |-> "none", out |-> FirstChannel(r.out)]

RECURSIVE Trajectory_update_reversed(_, _)
\* for layer in reversed(self._sampling_layers): layer.update()
Trajectory_update_reversed(s, ls) ==
    IF ls = <<>> THEN s
    ELSE Trajectory_update_reversed(Layer_update(s, ls[Len(ls)]),
                                    SubSeq(ls, 1, Len(ls) - 1))

RECURSIVE Trajectory_update(_, _)
\* for layer in self._sampling_layers: layer.update()
Trajectory_update(s, ls) ==
    IF ls = <<>> THEN s
    ELSE Trajectory_update(Layer_update(s, Head(ls)), Tail(ls))

RECURSIVE Trajectory_resample(_, _)
\* for layer in self._sampling_layers: layer.resample()
Trajectory_resample(s, ls) ==
    IF ls = <<>> THEN s
    ELSE Trajectory_resample(Layer_resample(s, Head(ls)), Tail(ls))

\* ------------------------------------------------------------- the state
Store == [layers |-> layers, rng |-> rng]

\* the draws made by the constructors: W and b of every layer
InitDraws == 2 * NumManagers * NumLayers
RngCap == InitDraws + MaxPasses * NumLayers

NoLast == [op |-> "init", mgr |-> 0, obj |-> 0, lay |-> 0, x |-> NoX,
           err |-> "none",
           ret |-> 0, out |-> NoOut, first |-> FALSE, later |-> FALSE,
           redrawn |-> FALSE, fresh |-> 0, prev |-> NoEval]

\* DeepGaussianProcessDecoupledTrajectorySampler.__init__: one layer sampler
\* per f_layer of the model, built in order
Manager_init(m) ==
    [i \in 1..NumLayers |-> (m - 1) * NumLayers + i]

MainInit ==
    /\ model = [m \in Managers |-> 0]
    /\ sampling_layers = [m \in Managers |-> Manager_init(m)]
    /\ \E order \in RFFBuilds :
          layers = [l \in LayerIds |->
                       Layer_init(((l - 1) \div NumLayers) + 1, 0, 2 * (l - 1),
                                  order)]
    /\ objects = <<>>
    /\ rng = InitDraws
    /\ hist = <<>>
    /\ last = NoLast
    /\ direct = 0

\* the objects of the other specifications, not constructed here
NoBuild == [state |-> "none"]
NoReparam == [state |-> "none"]
NoDGP == [state |-> "none"]

Init ==
    /\ MainInit
    /\ build = NoBuild
    /\ reparam = NoReparam
    /\ dgp = NoDGP

\* a manager that takes any callable for a trajectory
Manager_accepts_any(m, obj) ==
    TRUE

\* tf.debugging.Assert(isinstance(trajectory,
\* dgp_feature_decomposition_trajectory), []) in the methods of manager m
Manager_accepts(m, obj) ==
    obj.type = CompositionType

\* a manager that updates its own layer samplers, whatever it is given
Manager_target_own(m, obj) ==
    sampling_layers[m]

\* cast(dgp_feature_decomposition_trajectory, trajectory): the layers the
\* manager's update and resample act on are those of the trajectory
Manager_target(m, obj) ==
    obj.sampling_layers

\* a manager method without its return statement
Manager_return_none(t) ==
    0

\* return trajectory
Manager_return(t) ==
    t

\* dgp_feature_decomposition_trajectory.__init__: keeps the list it is given
Trajectory_init(ls) ==
    [type |-> CompositionType, sampling_layers |-> ls]

\* the evaluations recorded for the objects over the layers of manager m, or
\* for object t, are no longer of the current draw
Forget(h, m, t) ==
    [u \in 1..Len(h) |->
        IF u = t \/ (m # 0 /\ \E i \in 1..Len(objects[u].sampling_layers) :
                                layers[objects[u].sampling_layers[i]].mgr = m)
        THEN [h[u] EXCEPT !.eval = NoEval]
        ELSE h[u]]

\* ----------------------------------------------------------- the operations
\* DeepGaussianProcessDecoupledTrajectorySampler.get_trajectory
get_trajectory(m) ==
    /\ Len(objects) < MaxObjects
    /\ objects' = Append(objects, Trajectory_init(sampling_layers[m]))
    /\ hist' = Append(hist,
          [called |-> FALSE,
           later |-> \E u \in 1..Len(objects) :
                        /\ objects[u].sampling_layers = sampling_layers[m]
                        /\ hist[u].called,
           eval |-> NoEval])
    /\ last' = [NoLast EXCEPT !.op = "get_trajectory", !.mgr = m,
                              !.ret = Len(objects) + 1]
    /\ UNCHANGED <<model, sampling_layers, layers, rng>>
    /\ UNCHANGED <<direct, build, reparam, dgp>>

\* DeepGaussianProcessTrajectorySampler.get_trajectory: sample_dgp returns
\* the bound __call__ of a ChainedSample, which is not a composition
sample_dgp ==
    /\ Len(objects) < MaxObjects
    /\ objects' = Append(objects, [type |-> ChainedSampleType,
                                   sampling_layers |-> <<>>])
    /\ hist' = Append(hist, [called |-> FALSE, later |-> FALSE, eval |-> NoEval])
    /\ last' = [NoLast EXCEPT !.op = "sample_dgp", !.ret = Len(objects) + 1]
    /\ UNCHANGED <<model, sampling_layers, layers, rng>>
    /\ UNCHANGED <<direct, build, reparam, dgp>>

\* trajectory(x) on a composition
call(t, x) ==
    /\ t \in 1..Len(objects)
    /\ objects[t].type = CompositionType
    /\ LET r == Trajectory_call(Store, objects[t].sampling_layers, x)
       IN  /\ r.store.rng <= RngCap
           /\ layers' = r.store.layers
           /\ rng' = r.store.rng
           /\ hist' = [hist EXCEPT ![t] =
                          [called |-> TRUE,
                           later |-> hist[t].later,
                           eval |-> IF r.err = "none"
                                    THEN [valid |-> TRUE, x |-> x, out |-> r.out]
                                    ELSE hist[t].eval]]
           /\ last' = [NoLast EXCEPT !.op = "call", !.obj = t, !.x = x,
                                     !.err = r.err, !.out = r.out,
                                     !.first = ~hist[t].called,
                                     !.later = hist[t].later,
                                     !.redrawn =
                                        \E l \in {objects[t].sampling_layers[i] :
                                                i \in 1..Len(objects[t].sampling_layers)} :
                                           /\ ~layers[l].initialized
                                           /\ layers[l].weights_sample.draw # 0,
                                     !.fresh = Cardinality(
                                        {i \in 1..Len(objects[t].sampling_layers) :
                                            ~layers[objects[t].sampling_layers[i]]
                                                .initialized}),
                                     !.prev = hist[t].eval]
    /\ UNCHANGED <<model, sampling_layers, objects>>
    /\ UNCHANGED <<direct, build, reparam, dgp>>

\* trajectory.update() called on the object itself
update(t) ==
    /\ t \in 1..Len(objects)
    /\ objects[t].type = CompositionType
    /\ LET s == Trajectory_update(Store, objects[t].sampling_layers)
       IN  /\ s.rng <= RngCap
           /\ layers' = s.layers
           /\ rng' = s.rng
    /\ hist' = Forget(hist, 0, t)
    /\ last' = [NoLast EXCEPT !.op = "update", !.obj = t]
    /\ UNCHANGED <<model, sampling_layers, objects>>
    /\ UNCHANGED <<direct, build, reparam, dgp>>

\* trajectory.resample() called on the object itself
resample(t) ==
    /\ t \in 1..Len(objects)
    /\ objects[t].type = CompositionType
    /\ LET s == Trajectory_resample(Store, objects[t].sampling_layers)
       IN  /\ s.rng <= RngCap
           /\ layers' = s.layers
           /\ rng' = s.rng
    /\ hist' = Forget(hist, 0, t)
    /\ last' = [NoLast EXCEPT !.op = "resample", !.obj = t]
    /\ UNCHANGED <<model, sampling_layers, objects>>
    /\ UNCHANGED <<direct, build, reparam, dgp>>

\* DeepGaussianProcessDecoupledTrajectorySampler.update_trajectory
update_trajectory(m, t) ==
    /\ t \in 1..Len(objects)
    /\ IF ~Manager_accepts(m, objects[t])
       THEN /\ last' = [NoLast EXCEPT !.op = "update_trajectory", !.mgr = m,
                                      !.obj = t, !.err = "TypeMismatch"]
            /\ UNCHANGED <<layers, rng, hist>>
       ELSE LET s == Trajectory_update(Store, Manager_target(m, objects[t]))
            IN  /\ s.rng <= RngCap
                /\ layers' = s.layers
                /\ rng' = s.rng
                /\ hist' = Forget(hist, 0, t)
                /\ last' = [NoLast EXCEPT !.op = "update_trajectory",
                                          !.mgr = m, !.obj = t,
                                          !.ret = Manager_return(t)]
    /\ UNCHANGED <<model, sampling_layers, objects>>
    /\ UNCHANGED <<direct, build, reparam, dgp>>

\* DeepGaussianProcessDecoupledTrajectorySampler.resample_trajectory
resample_trajectory(m, t) ==
    /\ t \in 1..Len(objects)
    /\ IF ~Manager_accepts(m, objects[t])
       THEN /\ last' = [NoLast EXCEPT !.op = "resample_trajectory", !.mgr = m,
                                      !.obj = t, !.err = "TypeMismatch"]
            /\ UNCHANGED <<layers, rng, hist>>
       ELSE LET s == Trajectory_resample(Store, Manager_target(m, objects[t]))
            IN  /\ s.rng <= RngCap
                /\ layers' = s.layers
                /\ rng' = s.rng
                /\ hist' = Forget(hist, 0, t)
                /\ last' = [NoLast EXCEPT !.op = "resample_trajectory",
                                          !.mgr = m, !.obj = t,
                                          !.ret = Manager_return(t)]
    /\ UNCHANGED <<model, sampling_layers, objects>>
    /\ UNCHANGED <<direct, build, reparam, dgp>>

\* DeepGaussianProcess.optimize: the fit changes the kernel parameters, the
\* inducing points, q_mu and q_sqrt of the model's layers
optimize(m) ==
    /\ model[m] < MaxFits
    /\ model' = [model EXCEPT ![m] = @ + 1]
    /\ hist' = Forget(hist, m, 0)
    /\ last' = [NoLast EXCEPT !.op = "optimize", !.mgr = m]
    /\ UNCHANGED <<sampling_layers, layers, objects, rng>>
    /\ UNCHANGED <<direct, build, reparam, dgp>>

\* operations called directly on a layer sampler or on its feature bank
MaxLayerOps == 1

\* ResampleableDecoupledDeepGaussianProcessFeatureFunctions.resample, called
\* on the feature bank of one layer sampler: b and W are redrawn in place,
\* the layer's cached weights and its readiness are left as they are
features_resample(l) ==
    /\ direct < MaxLayerOps
    /\ direct' = direct + 1
    /\ rng + 2 <= RngCap
    /\ layers' = [layers EXCEPT
                     ![l].features = FeatureFunctions_resample(@, rng)]
    /\ rng' = rng + 2
    /\ hist' = Forget(hist, layers[l].mgr, 0)
    /\ last' = [NoLast EXCEPT !.op = "features_resample", !.mgr = layers[l].mgr]
    /\ UNCHANGED <<model, sampling_layers, objects>>
    /\ UNCHANGED <<build, reparam, dgp>>

\* DeepGaussianProcessDecoupledLayer.__call__ on one layer sampler of a
\* manager's list, outside any trajectory
layer_call(l, x) ==
    /\ direct < MaxLayerOps
    /\ direct' = direct + 1
    /\ LET r == Layer_call(Store, l, x)
       IN  /\ r.store.rng <= RngCap
           /\ layers' = r.store.layers
           /\ rng' = r.store.rng
           /\ last' = [NoLast EXCEPT !.op = "layer_call",
                                     !.mgr = layers[l].mgr, !.lay = l,
                                     !.x = x, !.err = r.err, !.out = r.out]
    /\ UNCHANGED <<model, sampling_layers, objects, hist>>
    /\ UNCHANGED <<build, reparam, dgp>>

\* DeepGaussianProcessDecoupledLayer.resample on one layer sampler
layer_resample(l) ==
    /\ direct < MaxLayerOps
    /\ direct' = direct + 1
    /\ LET s == Layer_resample(Store, l)
       IN  /\ s.rng <= RngCap
           /\ layers' = s.layers
           /\ rng' = s.rng
    /\ hist' = Forget(hist, layers[l].mgr, 0)
    /\ last' = [NoLast EXCEPT !.op = "layer_resample",
                              !.mgr = layers[l].mgr, !.lay = l]
    /\ UNCHANGED <<model, sampling_layers, objects>>
    /\ UNCHANGED <<build, reparam, dgp>>

\* DeepGaussianProcessDecoupledLayer.update on one layer sampler
layer_update(l) ==
    /\ direct < MaxLayerOps
    /\ direct' = direct + 1
    /\ LET s == Layer_update(Store, l)
       IN  /\ s.rng <= RngCap
           /\ layers' = s.layers
           /\ rng' = s.rng
    /\ hist' = Forget(hist, layers[l].mgr, 0)
    /\ last' = [NoLast EXCEPT !.op = "layer_update",
                              !.mgr = layers[l].mgr, !.lay = l]
    /\ UNCHANGED <<model, sampling_layers, objects>>
    /\ UNCHANGED <<build, reparam, dgp>>

Next ==
    \/ \E m \in Managers : get_trajectory(m)
    \/ \E l \in LayerIds : features_resample(l)
    \/ \E l \in LayerIds, x \in Inputs : layer_call(l, x)
    \/ \E l \in LayerIds : layer_resample(l)
    \/ \E l \in LayerIds : layer_update(l)
    \/ sample_dgp
    \/ \E t \in ObjectIds, x \in Inputs : call(t, x)
    \/ \E t \in ObjectIds : update(t)
    \/ \E t \in ObjectIds : resample(t)
    \/ \E m \in Managers, t \in ObjectIds : update_trajectory(m, t)
    \/ \E m \in Managers, t \in ObjectIds : resample_trajectory(m, t)
    \/ \E m \in Managers : optimize(m)

Spec == Init /\ [][Next]_vars

TypeOK ==
    /\ model \in [Managers -> 0..MaxFits]
    /\ rng \in InitDraws..RngCap
    /\ direct \in 0..MaxLayerOps
    /\ Len(objects) <= MaxObjects
    /\ Len(hist) = Len(objects)
    /\ \A l \in LayerIds : layers[l].batch_size \in 0..MaxBatch

\* ---------------------------------------------------------------- claims
\* the layer samplers object t reaches
LayersOf(t) == {objects[t].sampling_layers[i] :
                    i \in 1..Len(objects[t].sampling_layers)}

\* the layer samplers of manager m
LayersOfManager(m) == {sampling_layers[m][i] : i \in 1..Len(sampling_layers[m])}

\* what a trajectory sees of a layer sampler
Seen(lay) == <<lay.weights_sample, lay.features, lay.batch_size, lay.initialized>>

ManagerOps == {"update_trajectory", "resample_trajectory"}
UpdateOps == {"update", "update_trajectory"}
ResampleOps == {"resample", "resample_trajectory"}

\* C1: the first evaluation of a trajectory that get_trajectory() returned
\* after another trajectory of the same manager had been evaluated does not
\* raise ShapeMismatch, whatever its batch size.
C1_NewTrajectoryNewBatch ==
    (last.op = "call" /\ last.first /\ last.later) => last.err # "ShapeMismatch"

\* C2: resample(), update() or the first evaluation of one trajectory leaves
\* the weights, features, batch size and initialization state seen by every
\* other trajectory unchanged.
C2_NoSharedState ==
    [][\A t \in 1..Len(objects), u \in 1..Len(objects) :
          (/\ t # u
           /\ objects[t].type = CompositionType
           /\ objects[u].type = CompositionType
           /\ last'.obj = t
           /\ last'.err = "none"
           /\ \/ last'.op \in UpdateOps \cup ResampleOps
              \/ last'.op = "call" /\ last'.first)
          => \A l \in LayersOf(u) : Seen(layers'[l]) = Seen(layers[l])]_vars

\* C3: evaluating a trajectory whose first layer sampler is READY with batch
\* size B on an input of batch size B' # B raises ShapeMismatch and changes
\* no layer sampler (batch size, initialization state, weights, features).
C3_ShapeMismatch ==
    [][\A t \in 1..Len(objects) :
          (/\ last'.op = "call"
           /\ last'.obj = t
           /\ layers[Head(objects[t].sampling_layers)].initialized
           /\ layers[Head(objects[t].sampling_layers)].batch_size # last'.x.B)
          => /\ last'.err = "ShapeMismatch"
             /\ layers' = layers
             /\ rng' = rng]_vars

\* C3 witness: a call on READY layers with another batch size has raised
C3_Witness ==
    /\ last.op = "call"
    /\ last.err = "ShapeMismatch"
    /\ \A l \in LayersOf(last.obj) :
          /\ layers[l].initialized
          /\ layers[l].batch_size # last.x.B
          /\ layers[l].weights_sample.B = layers[l].batch_size

\* C4: an evaluation of a trajectory on the input of its previous evaluation,
\* with no resample() or update() on that trajectory (and no fit of its
\* model) in between, returns the output of the previous evaluation.
C4_RepeatedEvaluation ==
    (/\ last.op = "call"
     /\ last.err = "none"
     /\ last.prev.valid
     /\ last.prev.x = last.x)
    => last.out = last.prev.out

\* C5: after update() every layer sampler of the trajectory has features
\* (W, b) drawn during the update and weights drawn during the update.
C5_UpdateRedrawsFeatures ==
    [][(last'.op \in UpdateOps /\ last'.err = "none")
          => \A l \in LayersOf(last'.obj) :
                /\ layers'[l].weights_sample.draw > rng
                /\ layers'[l].features.W > rng
                /\ layers'[l].features.b > rng]_vars

\* C6: resample() replaces the cached weights of the trajectory's layer
\* samplers by a draw made during the call and changes nothing else: the
\* features, the batch size, the initialization state and the prepared
\* weight sampler of every layer sampler stay as they were.
C6_ResampleFrame ==
    [][(last'.op \in ResampleOps /\ last'.err = "none")
          => /\ \A l \in LayerIds :
                   layers'[l] = [layers[l] EXCEPT !.weights_sample =
                                                    layers'[l].weights_sample]
             /\ \A l \in LayersOf(last'.obj) :
                   /\ layers'[l].weights_sample.draw > rng
                   /\ layers'[l].weights_sample.B = layers[l].batch_size
             /\ \A l \in LayerIds \ LayersOf(last'.obj) :
                   layers'[l] = layers[l]]_vars

\* C6 witness: a resample of READY layer samplers after a fit of their model
C6_Witness ==
    /\ last.op \in ResampleOps
    /\ last.err = "none"
    /\ \A l \in LayersOf(last.obj) :
          /\ layers[l].initialized
          /\ layers[l].weights_sample.draw > InitDraws + NumLayers
          /\ model[layers[l].mgr] > 0

\* C7: every weight draw uses the Gram matrix of the kernel and inducing
\* points as they are at the time of the draw.
C7_FreshGram ==
    \A l \in LayerIds :
        layers[l].weights_sample.draw # 0
        => layers[l].weights_sample.Kmm = layers[l].weights_sample.q

\* C8: update_trajectory and resample_trajectory on an object that is not a
\* dgp_feature_decomposition_trajectory raise TypeMismatch and modify no
\* layer sampler.
C8_TypeMismatch ==
    [][(/\ last'.op \in ManagerOps
        /\ objects[last'.obj].type # CompositionType)
          => /\ last'.err = "TypeMismatch"
             /\ last'.ret = 0
             /\ layers' = layers
             /\ rng' = rng]_vars

\* C8 witness: a manager method has rejected a ChainedSample function while
\* one of its layer samplers holds drawn weights
C8_Witness ==
    /\ last.op \in ManagerOps
    /\ last.err = "TypeMismatch"
    /\ objects[last.obj].type = ChainedSampleType
    /\ \E l \in LayersOfManager(last.mgr) : layers[l].weights_sample.draw # 0

\* the managers whose get_trajectory returns the layer list of object t
ProducersOf(t) == {m \in Managers : objects[t].sampling_layers = sampling_layers[m]}

\* C9 as stated: update_trajectory of a manager on a trajectory that another
\* manager produced raises TypeMismatch.
C9_ForeignTrajectoryRejected ==
    (/\ last.op = "update_trajectory"
     /\ objects[last.obj].type = CompositionType
     /\ last.mgr \notin ProducersOf(last.obj))
    => last.err = "TypeMismatch"

\* C9 amended: update_trajectory of manager A on a composition produced by
\* another manager B does not raise: it returns the trajectory, redraws the
\* weights of B's layer samplers and leaves A's layer samplers unchanged.
C9_ForeignTrajectoryUpdated ==
    [][(/\ last'.op = "update_trajectory"
        /\ objects[last'.obj].type = CompositionType
        /\ last'.mgr \notin ProducersOf(last'.obj))
          => /\ last'.err = "none"
             /\ last'.ret = last'.obj
             /\ \A l \in LayersOf(last'.obj) :
                   /\ layers'[l].weights_sample.draw > rng
                   /\ layers'[l].weight_sampler.Kmm = model[layers[l].mgr]
             /\ \A l \in LayersOfManager(last'.mgr) : layers'[l] = layers[l]]_vars

\* C9 witness: a manager has updated a trajectory of another manager while
\* its own layer samplers hold drawn weights
C9_Witness ==
    /\ last.op = "update_trajectory"
    /\ last.err = "none"
    /\ objects[last.obj].type = CompositionType
    /\ last.mgr \notin ProducersOf(last.obj)
    /\ \A l \in LayersOfManager(last.mgr) : layers[l].initialized

\* C10: a successful update_trajectory or resample_trajectory returns the
\* object it was given, which is still the same object over the same layer
\* samplers, and these hold weights drawn during the call.
C10_SameObject ==
    [][(last'.op \in ManagerOps /\ last'.err = "none")
          => /\ last'.ret = last'.obj
             /\ objects' = objects
             /\ \A l \in LayersOf(last'.obj) :
                   layers'[l].weights_sample.draw > rng]_vars

\* C10 witness: a manager method has returned after redrawing the weights of
\* an evaluated trajectory
C10_Witness ==
    /\ last.op \in ManagerOps
    /\ last.err = "none"
    /\ last.ret # 0
    /\ hist[last.obj].called
    /\ \A l \in LayersOf(last.obj) : layers[l].initialized

\* the layer list of object t and its position-wise members
ListOf(t) == objects[t].sampling_layers

\* the evaluation of the list ls on an input of batch size B gets to the
\* layer sampler at position i: every layer sampler before it takes the input
Reached(ls, i, B) ==
    \A j \in 1..(i - 1) :
        ~layers[ls[j]].initialized \/ layers[ls[j]].batch_size = B

\* the positions of ls whose layer sampler has its first evaluation in the
\* evaluation of ls on an input of batch size B
FirstEvaluated(ls, B) ==
    {i \in 1..Len(ls) : Reached(ls, i, B) /\ ~layers[ls[i]].initialized}

\* C13: the first evaluation of an UNINITIALIZED layer sampler, called on
\* its own or reached by the evaluation of a trajectory, records the input's
\* batch size B, draws the weights exactly once with batch dimension B and
\* leaves the sampler READY; the evaluation of a READY layer sampler draws
\* nothing.
C13_LazyInitialization ==
    [][/\ \A t \in 1..Len(objects) :
             (last'.op = "call" /\ last'.obj = t)
             => /\ \A i \in FirstEvaluated(ListOf(t), last'.x.B) :
                      /\ layers'[ListOf(t)[i]].initialized
                      /\ layers'[ListOf(t)[i]].batch_size = last'.x.B
                      /\ layers'[ListOf(t)[i]].weights_sample.B = last'.x.B
                      /\ layers'[ListOf(t)[i]].weights_sample.draw =
                            rng + Cardinality({j \in FirstEvaluated(ListOf(t),
                                                                    last'.x.B) :
                                                  j <= i})
                /\ rng' - rng = Cardinality(FirstEvaluated(ListOf(t), last'.x.B))
                /\ \A l \in LayersOf(t) :
                      layers[l].initialized
                      => layers'[l].weights_sample = layers[l].weights_sample
       /\ \A l \in LayerIds :
             (last'.op = "layer_call" /\ last'.lay = l)
             => /\ ~layers[l].initialized
                   => /\ last'.err = "none"
                      /\ layers'[l].initialized
                      /\ layers'[l].batch_size = last'.x.B
                      /\ layers'[l].weights_sample.B = last'.x.B
                      /\ layers'[l].weights_sample.draw = rng + 1
                      /\ rng' = rng + 1
                /\ layers[l].initialized
                   => /\ layers'[l] = layers[l]
                      /\ rng' = rng]_vars

\* C13 witness: the evaluation of a trajectory over one READY and one
\* UNINITIALIZED layer sampler has initialized the latter with the last draw
C13_Witness ==
    /\ last.op = "call"
    /\ last.err = "none"
    /\ last.fresh > 0
    /\ last.fresh < Len(ListOf(last.obj))
    /\ \A l \in LayersOf(last.obj) :
          /\ layers[l].initialized
          /\ layers[l].batch_size = last.x.B
    /\ \E l \in LayersOf(last.obj) : layers[l].weights_sample.draw = rng

\* C15: a READY layer sampler stays READY and keeps its recorded batch size
\* in every step, whatever the operation and whether it fails or not.
C15_ReadyForever ==
    [][\A l \in LayerIds :
          layers[l].initialized
          => /\ layers'[l].initialized
             /\ layers'[l].batch_size = layers[l].batch_size]_vars

\* C15 witness: READY layer samplers after an update that followed a fit
C15_Witness ==
    /\ last.op \in UpdateOps
    /\ last.err = "none"
    /\ \A l \in LayersOf(last.obj) :
          /\ layers[l].initialized
          /\ layers[l].batch_size > 0
          /\ layers[l].weight_sampler.Kmm > 0

\* C16: trajectory update() and resample() act once on every layer sampler of
\* the list, in list order (the i-th layer sampler gets the i-th draw of the
\* call, and update() prepares its weight sampler anew), and on no other.
C16_FanOut ==
    [][\A t \in 1..Len(objects) :
          (/\ last'.op \in UpdateOps \cup ResampleOps
           /\ last'.err = "none"
           /\ last'.obj = t)
          => /\ rng' = rng + Len(ListOf(t))
             /\ \A i \in 1..Len(ListOf(t)) :
                   /\ layers'[ListOf(t)[i]].weights_sample.draw = rng + i
                   /\ last'.op \in UpdateOps =>
                         layers'[ListOf(t)[i]].weight_sampler.Kmm =
                            model[layers[ListOf(t)[i]].mgr]
                   /\ last'.op \in ResampleOps =>
                         layers'[ListOf(t)[i]].weight_sampler =
                            layers[ListOf(t)[i]].weight_sampler
             /\ \A l \in LayerIds \ LayersOf(t) : layers'[l] = layers[l]]_vars

\* C16 witness: an update has gone through every layer sampler of a list of
\* more than one, after a fit
C16_Witness ==
    /\ last.op \in UpdateOps
    /\ last.err = "none"
    /\ Len(ListOf(last.obj)) > 1
    /\ \A i \in 1..Len(ListOf(last.obj)) :
          /\ layers[ListOf(last.obj)[i]].weights_sample.draw
                = rng - Len(ListOf(last.obj)) + i
          /\ layers[ListOf(last.obj)[i]].weight_sampler.Kmm > 0

RECURSIVE Chained(_, _, _, _)
\* the value obtained by applying the layer samplers ls of heap h in order
Chained(h, ls, val, version) ==
    IF ls = <<>> THEN val
    ELSE Chained(h, Tail(ls),
                 val \o <<h[Head(ls)].features.W, h[Head(ls)].features.b,
                          h[Head(ls)].weights_sample.draw, version>>,
                 version)

\* C17: a successful evaluation returns channel 0, and only channel 0, of
\* what the last layer sampler makes of the output of the one before it, and
\* so on back to the first, which is given the input.
C17_ThreadAndFirstChannel ==
    [][\A t \in 1..Len(objects) :
          (last'.op = "call" /\ last'.err = "none" /\ last'.obj = t)
          => /\ last'.out.chan = 0
             /\ last'.out.B = last'.x.B
             /\ last'.out.val =
                   Chained(layers', ListOf(t), last'.x.val,
                           model[layers[Head(ListOf(t))].mgr])]_vars

\* C17 witness: an evaluation through more than one layer sampler, each with
\* more than one output channel
C17_Witness ==
    /\ last.op = "call"
    /\ last.err = "none"
    /\ Len(ListOf(last.obj)) > 1
    /\ \A l \in LayersOf(last.obj) : layers[l].weights_sample.P > 1
    /\ Len(last.out.val) = Len(last.x.val) + 4 * Len(ListOf(last.obj))

\* C19: the cached weights of a READY layer sampler have its recorded batch
\* size as batch dimension and L + M rows.
C19_WeightsShape ==
    \A l \in LayerIds :
        layers[l].initialized
        => /\ layers[l].weights_sample.B = layers[l].batch_size
           /\ layers[l].weights_sample.rows = layers[l].num_features + NumInducing

\* C19 witness: READY layer samplers whose weights had been redrawn before
\* the first evaluation
C19_Witness ==
    /\ last.op = "call"
    /\ last.redrawn
    /\ last.err = "none"
    /\ \A l \in LayersOf(last.obj) : layers[l].initialized

\* C20: update() or resample() on an UNINITIALIZED layer sampler, called on
\* the layer sampler or through a trajectory or a manager, leaves it
\* UNINITIALIZED with batch size 0 and weights of batch dimension 0; the
\* first evaluation of the layer sampler after that, on its own or reached
\* by the evaluation of a trajectory, records the input's batch size B,
\* draws weights of batch dimension B and leaves the sampler READY.
C20_RedrawBeforeFirstCall ==
    [][/\ \A t \in 1..Len(objects) : \A i \in 1..Len(ListOf(t)) :
             /\ (/\ last'.op \in UpdateOps \cup ResampleOps
                 /\ last'.err = "none"
                 /\ last'.obj = t
                 /\ ~layers[ListOf(t)[i]].initialized)
                => /\ ~layers'[ListOf(t)[i]].initialized
                   /\ layers'[ListOf(t)[i]].batch_size = 0
                   /\ layers'[ListOf(t)[i]].weights_sample.B = 0
                   /\ layers'[ListOf(t)[i]].weights_sample.draw > rng
             /\ (/\ last'.op = "call"
                 /\ last'.obj = t
                 /\ i \in FirstEvaluated(ListOf(t), last'.x.B)
                 /\ layers[ListOf(t)[i]].weights_sample.draw # 0)
                => /\ layers'[ListOf(t)[i]].initialized
                   /\ layers'[ListOf(t)[i]].batch_size = last'.x.B
                   /\ layers'[ListOf(t)[i]].weights_sample.B = last'.x.B
                   /\ layers'[ListOf(t)[i]].weights_sample.draw > rng
       /\ \A l \in LayerIds :
             /\ (/\ last'.op \in {"layer_resample", "layer_update"}
                 /\ last'.lay = l
                 /\ ~layers[l].initialized)
                => /\ ~layers'[l].initialized
                   /\ layers'[l].batch_size = 0
                   /\ layers'[l].weights_sample.B = 0
                   /\ layers'[l].weights_sample.draw > rng
             /\ (/\ last'.op = "layer_call"
                 /\ last'.lay = l
                 /\ ~layers[l].initialized
                 /\ layers[l].weights_sample.draw # 0)
                => /\ last'.err = "none"
                   /\ layers'[l].initialized
                   /\ layers'[l].batch_size = last'.x.B
                   /\ layers'[l].weights_sample.B = last'.x.B
                   /\ layers'[l].weights_sample.draw > rng]_vars

\* C20 witness: the evaluation of a trajectory over a READY layer sampler
\* and an UNINITIALIZED one that had drawn weights of batch dimension 0
\* before has made the latter READY with weights of the input's batch size
C20_Witness ==
    /\ last.op = "call"
    /\ last.err = "none"
    /\ last.redrawn
    /\ last.fresh > 0
    /\ last.fresh < Len(ListOf(last.obj))
    /\ \A l \in LayersOf(last.obj) :
          /\ layers[l].initialized
          /\ layers[l].weights_sample.B = last.x.B

\* ------------------------- construction of a decoupled trajectory sampler
MaxModelLayers == 2   \* f_layers of the model a manager is constructed over
MaxFeatureArg == 2    \* num_features arguments: -1..MaxFeatureArg
MaxGets == 2          \* get_trajectory calls on the constructed manager

LayerKinds == {"GPLayer", "LatentVariableLayer", "GIGPLayer"}
ModelShapes == UNION {[1..n -> LayerKinds] : n \in 1..MaxModelLayers}

\* a layer sampler that takes latent-variable layers as well
Layer_supported_lv(kind) ==
    kind \in {"GPLayer", "LatentVariableLayer"}

\* isinstance(layer, GPLayer) in DeepGaussianProcessDecoupledLayer.__init__
Layer_supported(kind) ==
    kind = "GPLayer"

\* tf.debugging.assert_non_negative(num_features)
Features_non_negative(n) ==
    n >= 0

\* tf.debugging.assert_positive(num_features)
Features_positive(n) ==
    n > 0

RECURSIVE Manager_build_layers(_, _, _, _)
\* [DeepGaussianProcessDecoupledLayer(layer, num_features) for layer in
\* f_layers]: the constructors run in order and the first that raises ends
\* the comprehension
Manager_build_layers(kinds, num_features, built, order) ==
    IF Len(built) = Len(kinds)
    THEN [samplers |-> built, err |-> "none"]
    ELSE IF ~Layer_supported(kinds[Len(built) + 1])
         THEN [samplers |-> built, err |-> "Unsupported"]
         ELSE Manager_build_layers(kinds, num_features,
                  Append(built, [Layer_init(1, 0, 2 * Len(built), order)
                                    EXCEPT !.num_features = num_features]),
                  order)

\* DeepGaussianProcessDecoupledTrajectorySampler.__init__: the outcome, the
\* number of layer samplers (and feature banks) constructed on the way, and
\* the manager's list when the constructor returns
Manager_new(a) ==
    IF ~a.predictor \/ ~a.deepgp
    THEN [err |-> "ValueError", built |-> 0, samplers |-> <<>>]
    ELSE IF ~Features_positive(a.num_features)
    THEN [err |-> "InvalidArgument", built |-> 0, samplers |-> <<>>]
    ELSE LET r == Manager_build_layers(a.kinds, a.num_features, <<>>, a.rff)
         IN  IF r.err # "none"
             THEN [err |-> r.err, built |-> Len(r.samplers), samplers |-> <<>>]
             ELSE [err |-> "none", built |-> Len(r.samplers),
                   samplers |-> r.samplers]

\* the arguments of the constructor, and the library build it runs on
BuildArgs == [predictor : BOOLEAN, deepgp : BOOLEAN, kinds : ModelShapes,
              num_features : (0 - 1)..MaxFeatureArg, rff : RFFBuilds]

BuildInit ==
    /\ MainInit
    /\ reparam = NoReparam
    /\ dgp = NoDGP
    /\ \E a \in BuildArgs :
          build = [state |-> "args", args |-> a, err |-> "none", built |-> 0,
                   samplers |-> <<>>, gets |-> 0]

\* DeepGaussianProcessDecoupledTrajectorySampler(model, num_features)
Manager_construct ==
    /\ build.state = "args"
    /\ LET r == Manager_new(build.args)
       IN  build' = [build EXCEPT
                        !.state = IF r.err = "none" THEN "built" ELSE "failed",
                        !.err = r.err,
                        !.built = r.built,
                        !.samplers = r.samplers]
    /\ UNCHANGED <<main, reparam, dgp>>

\* get_trajectory() on the manager the constructor returned
Manager_get_trajectory ==
    /\ build.state = "built"
    /\ build.gets < MaxGets
    /\ build' = [build EXCEPT !.gets = @ + 1]
    /\ UNCHANGED <<main, reparam, dgp>>

BuildNext ==
    \/ Manager_construct
    \/ Manager_get_trajectory

SpecBuild == BuildInit /\ [][BuildNext]_vars

\* the construction has run on a GPfluxPredictor over a DeepGP
Constructed ==
    /\ build.state \in {"built", "failed"}
    /\ build.args.predictor
    /\ build.args.deepgp

\* C11: constructing the manager (with a positive feature count) over a model
\* with a layer that is not a GPLayer fails with Unsupported: no manager
\* exists and get_trajectory is never called on it.
C11_UnsupportedLayer ==
    (/\ Constructed
     /\ build.args.num_features > 0
     /\ \E i \in 1..Len(build.args.kinds) : build.args.kinds[i] # "GPLayer")
    => /\ build.state = "failed"
       /\ build.err = "Unsupported"
       /\ build.samplers = <<>>
       /\ build.gets = 0

\* C11 witness: the construction failed at a latent-variable layer that
\* follows a GP layer
C11_Witness ==
    /\ Constructed
    /\ build.err = "Unsupported"
    /\ Len(build.args.kinds) = 2
    /\ build.args.kinds[1] = "GPLayer"
    /\ build.args.kinds[2] = "LatentVariableLayer"
    /\ build.built = 1

\* C12: constructing the manager with a feature count L <= 0 fails with
\* InvalidArgument before any layer sampler or feature bank is constructed.
C12_NonPositiveFeatures ==
    (Constructed /\ build.args.num_features <= 0)
    => /\ build.state = "failed"
       /\ build.err = "InvalidArgument"
       /\ build.built = 0
       /\ build.samplers = <<>>

\* C12 witness: the construction with L = 0 over a model of GP layers failed
C12_Witness ==
    /\ Constructed
    /\ build.args.num_features = 0
    /\ \A i \in 1..Len(build.args.kinds) : build.args.kinds[i] = "GPLayer"
    /\ build.err = "InvalidArgument"

\* -------------------------------------- DeepGaussianProcessReparamSampler
MaxRows == 2          \* rows N of the query points of sample(): 1..MaxRows

ReparamKinds == {"GPLayer", "LatentVariableLayer"}
ReparamModels == UNION {[1..n -> ReparamKinds] : n \in 1..MaxModelLayers}

\* the arguments of sample(): the rank, rows and content of `at`, and jitter
ReparamInputs == [rank : {1, 2}, N : 1..MaxRows, val : {<<p>> : p \in 1..NumPoints},
                  jitter : {0 - 1, 0}]
NoAt == [rank |-> 0, N |-> 0, val |-> <<>>, jitter |-> 0]
NoSamples == [N |-> 0, val |-> <<>>]
NoSampled == [valid |-> FALSE, at |-> NoAt, out |-> NoSamples]

\* what layer.prior.sample does with the sample shape
\* [tf.shape(samples)[:-1]], a list holding one shape vector:
\*   "strict": it takes the argument for a rank-2 shape and raises before
\*             drawing anything;
\*   "rank3":  it draws a tensor of rank 3 or more, which the assignment to
\*             the rank-2 noise variable of shape [S, None] rejects.
PriorKinds == {"strict", "rank3"}

\* tf.Variable(tf.ones([sample_size, 0])): the empty noise of a layer
EmptyEps == [draw |-> 0, N |-> 0]

\* __init__: one empty noise variable per f_layer, nothing drawn yet
Reparam_init(kinds, prior) ==
    [state |-> "live", kinds |-> kinds, prior |-> prior,
     initialized |-> FALSE,
     eps |-> [i \in 1..Len(kinds) |-> EmptyEps], rng |-> 0, fits |-> 0,
     op |-> "init", at |-> NoAt, err |-> "none", out |-> NoSamples,
     prev |-> NoSampled]

\* if not self._initialized
Reparam_draws(r) ==
    ~r.initialized

\* the latent-variable branch of the loop, at layer i: on a sampler that is
\* not initialized the assignment of the prior's sample raises and the noise
\* of the layer stays as it was; otherwise the compositor concatenates the
\* layer's noise to the samples, which needs as many rows as `at` has
Reparam_latent(r, i, at, val) ==
    IF Reparam_draws(r)
    THEN [r |-> [r EXCEPT !.rng = IF r.prior = "rank3" THEN @ + 1 ELSE @],
          err |-> "ValueError", val |-> val]
    ELSE IF r.eps[i].N # at.N
         THEN [r |-> r, err |-> "ShapeMismatch", val |-> val]
         ELSE [r |-> r, err |-> "none",
               val |-> val \o <<r.eps[i].draw, r.fits>>]

\* the GP branch of the loop, at layer i: the layer predicts at the samples,
\* a sampler that is not initialized assigns noise of shape [S, P], and the
\* samples become mean + sqrt(var) * noise
Reparam_gp(r, i, at, val) ==
    LET r1 == IF Reparam_draws(r)
              THEN [r EXCEPT !.eps[i] = [draw |-> r.rng + 1, N |-> 0],
                             !.rng = r.rng + 1]
              ELSE r
    IN  [r |-> r1, err |-> "none", val |-> val \o <<r1.eps[i].draw, r1.fits>>]

RECURSIVE Reparam_layers(_, _, _, _)
\* for i, layer in enumerate(f_layers): the loop stops at the first layer
\* that raises, with the noise of the layers before it already assigned
Reparam_layers(r, i, at, val) ==
    IF i > Len(r.kinds)
    THEN [r |-> r, err |-> "none", val |-> val]
    ELSE LET res == IF r.kinds[i] = "LatentVariableLayer"
                    THEN Reparam_latent(r, i, at, val)
                    ELSE Reparam_gp(r, i, at, val)
         IN  IF res.err # "none"
             THEN res
             ELSE Reparam_layers(res.r, i + 1, at, res.val)

\* DeepGaussianProcessReparamSampler.sample: the flag is set only when the
\* loop has run through every layer
Reparam_sample_result(r, at) ==
    IF at.rank # 2 \/ at.jitter < 0
    THEN [r |-> r, err |-> "InvalidArgument", out |-> NoSamples]
    ELSE LET res == Reparam_layers(r, 1, at, at.val)
         IN  IF res.err # "none"
             THEN [r |-> res.r, err |-> res.err, out |-> NoSamples]
             ELSE [r |-> [res.r EXCEPT !.initialized = TRUE], err |-> "none",
                   out |-> [N |-> at.N, val |-> res.val]]

ReparamInit ==
    /\ MainInit
    /\ build = NoBuild
    /\ dgp = NoDGP
    /\ \E kinds \in ReparamModels, prior \in PriorKinds :
          reparam = Reparam_init(kinds, prior)

\* sampler.sample(at, jitter=jitter)
Reparam_sample(at) ==
    /\ reparam.state = "live"
    /\ LET res == Reparam_sample_result(reparam, at)
       IN  /\ res.r.rng <= MaxPasses * Len(reparam.kinds)
           /\ reparam' = [res.r EXCEPT
                             !.op = "sample", !.at = at, !.err = res.err,
                             !.out = res.out,
                             !.prev = IF reparam.op = "sample" /\ reparam.err = "none"
                                      THEN [valid |-> TRUE, at |-> reparam.at,
                                            out |-> reparam.out]
                                      ELSE IF reparam.op = "sample"
                                           THEN reparam.prev
                                           ELSE NoSampled]
    /\ UNCHANGED <<main, build, dgp>>

\* DeepGaussianProcess.optimize on the sampler's model
Reparam_optimize ==
    /\ reparam.state = "live"
    /\ reparam.fits < MaxFits
    /\ reparam' = [reparam EXCEPT !.fits = @ + 1, !.op = "optimize",
                                  !.at = NoAt, !.err = "none",
                                  !.out = NoSamples, !.prev = NoSampled]
    /\ UNCHANGED <<main, build, dgp>>

ReparamNext ==
    \/ \E at \in ReparamInputs : Reparam_sample(at)
    \/ Reparam_optimize

SpecReparam == ReparamInit /\ [][ReparamNext]_vars

\* C14: the noise is drawn only in the first call of sample(): once a call
\* has assigned noise to some layer, every later call of sample() leaves the
\* noise of every layer as it is.
C14_NoiseDrawnOnce ==
    [][(/\ reparam'.op = "sample"
        /\ \E i \in 1..Len(reparam.kinds) : reparam.eps[i].draw # 0)
          => reparam'.eps = reparam.eps]_vars

\* ---------------------------------------- DeepGaussianProcess.update
MaxDim == 2           \* trailing dimensions of data, inducing points, q_mu
MaxData == 2          \* rows of a dataset: 1..MaxData

\* one f_layer: a GP layer with the trailing dimensions of its inducing
\* points Z and of q_mu, or a latent-variable layer whose compositor appends
\* `latent` columns to its input
DGPLayers ==
    [kind : {"GPLayer"}, Z : 1..MaxDim, q : 1..MaxDim, latent : {0},
     num_data : {0}]
    \cup [kind : {"LatentVariableLayer"}, Z : {0}, q : {0}, latent : {1},
          num_data : {0}]
DGPModels == UNION {[1..n -> DGPLayers] : n \in 1..MaxModelLayers}
Datasets == [xdim : 1..MaxDim, ydim : 1..MaxDim, n : 1..MaxData]
NoData == [xdim |-> 0, ydim |-> 0, n |-> 0]

\* i == len(self.model_gpflux.f_layers), with i counted from 0
DGP_is_past_last(i, n) ==
    i = n + 1

\* i == len(self.model_gpflux.f_layers) - 1, with i counted from 0
DGP_is_last(i, n) ==
    i = n

RECURSIVE DGP_update_layers(_, _, _, _)
\* for i, layer in enumerate(f_layers): num_data is set, a latent-variable
\* layer is applied without a check, a GP layer is checked and then applied
DGP_update_layers(ls, i, indim, data) ==
    IF i > Len(ls)
    THEN [layers |-> ls, err |-> "none", at |-> 0]
    ELSE LET ls1 == [ls EXCEPT ![i].num_data = data.n]
         IN  IF ls[i].kind = "LatentVariableLayer"
             THEN DGP_update_layers(ls1, i + 1, indim + ls[i].latent, data)
             ELSE IF indim # ls[i].Z
             THEN [layers |-> ls1, err |-> "ShapeMismatch", at |-> i]
             ELSE IF DGP_is_last(i, Len(ls)) /\ data.ydim # ls[i].q
             THEN [layers |-> ls1, err |-> "ShapeMismatch", at |-> i]
             ELSE DGP_update_layers(ls1, i + 1, ls[i].q, data)

DGPInit ==
    /\ MainInit
    /\ build = NoBuild
    /\ reparam = NoReparam
    /\ \E ls \in DGPModels :
          dgp = [state |-> "live", layers |-> ls, num_data |-> 0, op |-> "init",
                 data |-> NoData, err |-> "none", at |-> 0]

\* DeepGaussianProcess.update(dataset)
DGP_update(data) ==
    /\ dgp.state = "live"
    /\ LET r == DGP_update_layers(dgp.layers, 1, data.xdim, data)
       IN  dgp' = [dgp EXCEPT !.num_data = data.n, !.layers = r.layers,
                              !.op = "update", !.data = data, !.err = r.err,
                              !.at = r.at]
    /\ UNCHANGED <<main, build, reparam>>

DGPNext ==
    \E data \in Datasets : DGP_update(data)

SpecUpdate == DGPInit /\ [][DGPNext]_vars

RECURSIVE InputDim(_, _, _)
\* the trailing dimension of what reaches layer i of ls from data of
\* trailing dimension xdim
InputDim(ls, i, xdim) ==
    IF i = 1 THEN xdim
    ELSE IF ls[i - 1].kind = "LatentVariableLayer"
         THEN InputDim(ls, i - 1, xdim) + ls[i - 1].latent
         ELSE ls[i - 1].q

\* the GP layers whose inducing points do not fit their input
BadInputs(ls, xdim) ==
    {i \in 1..Len(ls) : ls[i].kind = "GPLayer" /\ InputDim(ls, i, xdim) # ls[i].Z}

\* the last layer is a GP layer whose q_mu does not fit the observations
BadObservations(ls, ydim) ==
    ls[Len(ls)].kind = "GPLayer" /\ ls[Len(ls)].q # ydim

\* C18: update(dataset) raises at the first GP layer whose inducing points'
\* trailing dimension differs from that of the layer's input, without
\* visiting the layers after it; with no such layer it raises at a last GP
\* layer whose q_mu trailing dimension differs from the observations';
\* latent-variable layers are never checked, and otherwise it returns.
C18_UpdateShapeChecks ==
    [][dgp'.op = "update"
          => LET ls == dgp.layers
                 bad == BadInputs(ls, dgp'.data.xdim)
                 stop == IF bad # {}
                         THEN CHOOSE i \in bad : \A j \in bad : i <= j
                         ELSE IF BadObservations(ls, dgp'.data.ydim)
                              THEN Len(ls)
                              ELSE 0
             IN  /\ dgp'.at = stop
                 /\ dgp'.err = IF stop # 0 THEN "ShapeMismatch" ELSE "none"
                 /\ stop # 0 => ls[stop].kind = "GPLayer"
                 /\ \A j \in 1..Len(ls) :
                       dgp'.layers[j].num_data =
                          IF stop = 0 \/ j <= stop THEN dgp'.data.n
                          ELSE ls[j].num_data]_vars

\* C18 witness: the update passed a latent-variable layer and raised at the
\* last layer, whose inducing points fit its input, for the observations
C18_Witness ==
    /\ dgp.state = "live"
    /\ dgp.op = "update"
    /\ dgp.err = "ShapeMismatch"
    /\ Len(dgp.layers) = 2
    /\ dgp.layers[1].kind = "LatentVariableLayer"
    /\ dgp.at = 2
    /\ dgp.layers[2].Z = dgp.data.xdim + dgp.layers[1].latent
    /\ dgp.layers[2].q # dgp.data.ydim

====
